---------------------------- MODULE Spec2Model ----------------------------
(***************************************************************************)
(* Frame naming of the sampling profiler (src/src/frameName.cpp).          *)
(*                                                                         *)
(* Text is a sequence of one-character strings.  A C string argument is a  *)
(* memory region: a sequence of characters in which NUL marks a            *)
(* terminator; what lies after the first NUL is the memory that happens to *)
(* follow the string, and the region is zero beyond its end.               *)
(***************************************************************************)
EXTENDS Integers, Sequences, FiniteSets, TLC

(* ------------------------------ bounds -------------------------------- *)

\* capacity of the scratch buffer _buf in bytes (sizeof(_buf)), scaled down
BufSize == 24

\* most array markers in front of one generated type token
MaxDim == 2

\* most parameters of a generated method descriptor
MaxParams == 2

\* most characters of a generated raw name
MaxNameLen == 3

(* ------------------------------ text ---------------------------------- *)

NUL == "NUL"

NullPtr == <<"NULL">>

STYLE_SIMPLE == "STYLE_SIMPLE"

STYLE_DOTTED == "STYLE_DOTTED"

STYLE_SIGNATURES == "STYLE_SIGNATURES"

STYLE_ANNOTATE == "STYLE_ANNOTATE"

\* the character at 0-based position p of a memory region
CharAt(mem, p) == IF p < Len(mem) THEN mem[p + 1] ELSE NUL

RECURSIVE strlenFrom(_, _)
strlenFrom(mem, p) == IF CharAt(mem, p) = NUL THEN p ELSE strlenFrom(mem, p + 1)

\* strlen: the position of the first terminator
strlen(mem) == strlenFrom(mem, 0)

\* the first n characters of s
Take(s, n) == IF Len(s) <= n THEN s ELSE SubSeq(s, 1, n)

RECURSIVE Repeat(_, _)
Repeat(s, n) == IF n <= 0 THEN <<>> ELSE s \o Repeat(s, n - 1)

(* ---------------------- decoder working state ------------------------- *)

(* The locals of appendDemangledJvmSignature / processJvmName together with
   the scratch buffer they write:
     text     the C string held in _buf (its terminator is at Len(text));
     hi       the highest index of _buf written so far (-1: none);
     s_pos    the read position in the input, maxRead the highest one read;
     fault    "memset" once memset was called with a negative length. *)
NewDec(mem, style, text) ==
    [mem |-> mem, style |-> style, text |-> text, hi |-> -1,
     s_pos |-> 0, maxRead |-> -1, arrayDim |-> 0, in_args |-> FALSE,
     steps |-> 0, fault |-> "none"]

Max(a, b) == IF a >= b THEN a ELSE b

\* reading signature[s_pos]
ReadAt(d) == [d EXCEPT !.maxRead = Max(@, d.s_pos)]

\* appendStr: strncat(out, str, strlen(str)), unbounded by the capacity
appendStr(d, str) ==
    [d EXCEPT !.text = @ \o str, !.hi = Max(@, Len(d.text) + Len(str))]

primitiveType(c) ==
    CASE c = "B" -> <<"b","y","t","e">>
      [] c = "C" -> <<"c","h","a","r">>
      [] c = "D" -> <<"d","o","u","b","l","e">>
      [] c = "F" -> <<"f","l","o","a","t">>
      [] c = "I" -> <<"i","n","t">>
      [] c = "J" -> <<"l","o","n","g">>
      [] c = "S" -> <<"s","h","o","r","t">>
      [] c = "V" -> <<"v","o","i","d">>
      [] c = "Z" -> <<"b","o","o","l","e","a","n">>
      [] OTHER   -> <<"W","T","F","!">>

(* ------------------------- processJvmName ----------------------------- *)

(* One iteration of the while(true) loop; emitted is out - initial_out.
   Returns <<d', emitted', returned>>. *)
JvmNameStep(d0, emitted, style) ==
    LET d  == ReadAt(d0)
        cq == CharAt(d.mem, d.s_pos)
        adv(e) == [e EXCEPT !.s_pos = @ + 1, !.steps = @ + 1]
    IN  CASE cq = NUL \/ cq = ";" -> <<d, emitted, TRUE>>
          [] cq \in {",", "\\", "(", ")"} ->
                <<adv(appendStr(d, <<"\\", cq>>)), emitted + 2, FALSE>>
          [] cq = "/" /\ STYLE_SIMPLE \in style ->
                \* memset(initial_out, NULL, initial_out - out)
                IF emitted = 0
                THEN <<adv(d), emitted, FALSE>>
                ELSE <<[d EXCEPT !.fault = "memset"], emitted, TRUE>>
          [] OTHER ->
                <<adv(appendStr(d, <<IF cq = "/" /\ STYLE_DOTTED \in style
                                     THEN "." ELSE cq>>)),
                  emitted + 1, FALSE>>

RECURSIVE JvmNameLoop(_, _, _)
JvmNameNext(r, style) ==
    IF r[3] THEN r[1] ELSE JvmNameLoop(r[1], r[2], style)

\* the while(true) loop of processJvmName
JvmNameLoop(d, emitted, style) ==
    JvmNameNext(JvmNameStep(d, emitted, style), style)

\* processJvmName(out, signature, s_pos, style), entered with out = initial_out
processJvmName(d, style) == JvmNameLoop(d, 0, style)

(* -------------------- appendDemangledJvmSignature --------------------- *)

\* lines 246-250: the pending "[]"s, s_pos++, and the parameter separator
\* line 250: if (in_args && signature[s_pos] != ')') out = appendStr(out, ", ")
Separator(d) ==
    IF d.in_args /\ CharAt(d.mem, d.s_pos) # ")"
    THEN appendStr(ReadAt(d), <<",", " ">>)
    ELSE IF d.in_args THEN ReadAt(d) ELSE d

\* lines 246-248: for (; arrayDim > 0; arrayDim--) out = appendStr(out, "[]")
ArraySuffix(d) ==
    [appendStr(d, Repeat(<<"[", "]">>, d.arrayDim)) EXCEPT !.arrayDim = 0]

AfterToken(d) ==
    IF d.fault # "none" THEN d
    ELSE Separator([ArraySuffix(d) EXCEPT !.s_pos = @ + 1, !.steps = @ + 1])

\* one iteration of the while(true) loop; <<d', returned>>
SigStep(d0) ==
    LET d == ReadAt(d0)
        c == CharAt(d.mem, d.s_pos)
    IN  CASE c = NUL -> <<d, TRUE>>
          [] c = "[" -> <<[d EXCEPT !.arrayDim = @ + 1, !.s_pos = @ + 1,
                                    !.steps = @ + 1], FALSE>>
          [] c = "L" -> <<AfterToken(processJvmName(
                              [d EXCEPT !.s_pos = @ + 1, !.steps = @ + 1],
                              d.style)), FALSE>>
          [] c = "(" -> <<[appendStr(d, <<"(">>) EXCEPT
                              !.in_args = TRUE, !.s_pos = @ + 1,
                              !.steps = @ + 1], FALSE>>
          [] c = ")" -> <<[appendStr(d, <<")", " ">>) EXCEPT
                              !.in_args = FALSE, !.s_pos = @ + 1,
                              !.steps = @ + 1], FALSE>>
          [] OTHER   -> <<AfterToken(appendStr(d, primitiveType(c))), FALSE>>

RECURSIVE SigLoop(_)
SigNext(r) == IF r[2] THEN r[1] ELSE SigLoop(r[1])

\* the while(true) loop of appendDemangledJvmSignature
SigLoop(d) == IF d.fault # "none" THEN d ELSE SigNext(SigStep(d))

(* appendDemangledJvmSignature(out, signature, style): out + strlen(out)
   is the end of text; a NULL signature leaves the buffer alone. *)
appendDemangledJvmSignature(text, signature, style) ==
    IF signature = NullPtr
    THEN NewDec(<<>>, style, text)
    ELSE SigLoop(NewDec(signature, style, text))

\* appendMethodName(out, name): processJvmName from s_pos 0 with style 0
appendMethodName(text, name) == processJvmName(NewDec(name, {}, text), {})

(* javaClassName(symbol, length, style): result[0] = '\0', then the
   signature decoder on symbol; length is not used. *)
javaClassName(symbol, length, style) ==
    [appendDemangledJvmSignature(<<>>, symbol, style) EXCEPT !.hi = Max(@, 0)]

(* ------------------------- numeric formatting ------------------------- *)

DigitChar(k) == <<"0","1","2","3","4","5","6","7","8","9">>[k + 1]

RECURSIVE DecDigits(_)
DecDigits(n) ==
    IF n < 10 THEN <<DigitChar(n)>>
    ELSE DecDigits(n \div 10) \o <<DigitChar(n % 10)>>

\* printf's %d in the C locale
FormatD(n) == IF n < 0 THEN <<"-">> \o DecDigits(-n) ELSE DecDigits(n)

\* snprintf(_buf, sizeof(_buf), ...): at most sizeof(_buf) - 1 characters
snprintf(full) == Take(full, BufSize - 1)

(* --------------------------- collaborators ---------------------------- *)

JMethods == {"m1", "m2"}

\* what GetMethodName / GetClassSignature deliver for a method on success
MethodNameOf(m) ==
    IF m = "m1" THEN <<"f", ",", "g">> ELSE <<"r", "u", "n">>

MethodSigOf(m) ==
    IF m = "m1" THEN <<"(", "I", "[", "L", "a", "/", "B", ";", ")", "V">>
    ELSE <<"(", ")", "V">>

ClassSigOf(m) ==
    IF m = "m1" THEN <<"L", "a", "/", "B", ";">> ELSE <<"L", "C", ";">>

\* thread ids met in THREAD_ID frames
Tids == {7, 42}

\* the threads the collaborator gets to name
NamedTids == {42}

ThreadDisplayNames ==
    { <<"m","a","i","n">>,
      <<"p","o","o","l","-","1","-","t","h","r","e","a","d","-","1","0">> }

\* native symbol names met in NATIVE frames
NativeSymbols ==
    { <<"m","a","l","l","o","c">>,
      <<"_","Z","x">>,
      <<"_","Z","1","f","v">>,
      <<"_","Z","3","b","a","r","P","K","c","S","0","_","S","0","_">> }

\* abi::__cxa_demangle on the names above (NullPtr: status != 0)
cxa_demangle(name) ==
    CASE name = <<"_","Z","1","f","v">> -> <<"f","(",")">>
      [] name = <<"_","Z","3","b","a","r","P","K","c","S","0","_","S","0","_">> ->
            <<"b","a","r","(","c","h","a","r"," ","c","o","n","s","t","*",","," ",
              "c","h","a","r"," ","c","o","n","s","t","*",","," ",
              "c","h","a","r"," ","c","o","n","s","t","*",")">>
      [] OTHER -> NullPtr

\* bodies of the VMSymbols met in SYMBOL frames: the class names a/B and I
SymbolBodies ==
    { <<"a", "/", "B">>, <<"I">> }

\* the bytes that follow a VMSymbol's body in memory (the body has no terminator)
SymbolTails == { <<NUL>>, <<"I">> }

ErrorTexts ==
    { <<"n","o","_","J","a","v","a","_","f","r","a","m","e">>,
      <<"n","o","t","_","w","a","l","k","a","b","l","e","_","n","o","t","_",
        "J","a","v","a">> }

BCI_NATIVE_FRAME == "BCI_NATIVE_FRAME"

BCI_SYMBOL == "BCI_SYMBOL"

BCI_SYMBOL_OUTSIDE_TLAB == "BCI_SYMBOL_OUTSIDE_TLAB"

BCI_THREAD_ID == "BCI_THREAD_ID"

BCI_ERROR == "BCI_ERROR"

\* any other bci: a bytecode index of a regular method frame
BCI_REGULAR == "bci"

Locations ==
    {BCI_NATIVE_FRAME, BCI_SYMBOL, BCI_SYMBOL_OUTSIDE_TLAB, BCI_THREAD_ID,
     BCI_ERROR, BCI_REGULAR}

StyleFlags == {STYLE_SIMPLE, STYLE_DOTTED, STYLE_SIGNATURES, STYLE_ANNOTATE}

(* ------------------------------ state --------------------------------- *)

VARIABLES
    _cache,          \* JMethodCache: method id -> stored std::string
    _buf,            \* the C string held in the scratch buffer
    _style,          \* the style bits given to the constructor
    _thread_names,   \* the collaborator's ThreadMap: tid -> display name
    proc,            \* "running", "overflowed" (a write went past _buf), "crashed"
    hiWrite,         \* highest index of _buf written by the last call (-1: none)
    call,            \* the last name() call: frame, outcome and returned string
    queries,         \* per method id: metadata queries issued (saturating)
    inserts,         \* per method id: cache insertions made (saturating)
    firstq,          \* per method id: outcome and composed text of its first query
    fin,             \* input of the function under study (formatter and
                     \* line-number specifications)
    fout,            \* its result
    lock,            \* _thread_names_lock: "free", or who holds it
    tpc,             \* position of name() inside its BCI_THREAD_ID case
    ttid,            \* tid of the BCI_THREAD_ID call in progress
    it,              \* result of _thread_names.find(tid)
    wpc              \* position of the collaborator that updates the map

vars == <<_cache, _buf, _style, _thread_names, proc, hiWrite, call, queries,
          inserts, firstq, fin, fout, lock, tpc, ttid, it, wpc>>

\* the lock and the positions of the two threads that use it
lockVars == <<lock, tpc, ttid, it, wpc>>

sessionVars == <<_cache, _buf, _style, _thread_names, proc, hiWrite, call,
                 queries, inserts, firstq, lock, tpc, ttid, it, wpc>>

\* most metadata queries / insertions counted per method id
MaxCount == 2

Bump(n) == IF n < MaxCount THEN n + 1 ELSE n

NoCall == [kind |-> "none", id |-> <<>>, outcome |-> "none", src |-> "none",
           text |-> <<>>]

NoFirst == [res |-> "none", text |-> <<>>]

EmptyMap == [k \in {} |-> <<>>]

MapPut(f, k, v) == [x \in DOMAIN f \cup {k} |-> IF x = k THEN v ELSE f[x]]

\* no formatter input drawn, no formatter applied
NoInput ==
    [kind |-> "none", params |-> <<>>, ret |-> [dims |-> 0, base |-> <<"V">>],
     name |-> <<>>, tail |-> <<>>, style |-> {}]

NotRun == [ran |-> FALSE, d |-> NewDec(<<>>, {}, <<>>)]

\* nobody holds _thread_names_lock and no call is in progress
LockInit ==
    /\ lock = "free"
    /\ tpc = "idle"
    /\ ttid = 0
    /\ it = "none"
    /\ wpc = "idle"

\* FrameName::FrameName
Init ==
    /\ _cache = EmptyMap
    /\ _buf = <<>>
    /\ _style \in SUBSET StyleFlags
    /\ _thread_names = EmptyMap
    /\ proc = "running"
    /\ hiWrite = -1
    /\ call = NoCall
    /\ queries = [m \in JMethods |-> 0]
    /\ inserts = [m \in JMethods |-> 0]
    /\ firstq = [m \in JMethods |-> NoFirst]
    /\ fin = NoInput
    /\ fout = NotRun
    /\ LockInit

\* the state a call leaves behind when its formatting wrote text into _buf
Written(text, hi) ==
    /\ _buf' = text
    /\ hiWrite' = hi
    /\ proc' = IF hi >= BufSize THEN "overflowed" ELSE "running"

\* the process dies inside the call: nothing is returned
Crash(kind, id) ==
    /\ proc' = "crashed"
    /\ call' = [kind |-> kind, id |-> id, outcome |-> "fault", src |-> "none",
                text |-> <<>>]
    /\ UNCHANGED <<_buf, hiWrite>>

(* --------------------------- cppDemangle ------------------------------ *)

cppDemangleCopyAlways(name) ==
    IF cxa_demangle(name) # NullPtr
    THEN <<TRUE, Take(cxa_demangle(name), BufSize - 1)>>
    ELSE <<TRUE, Take(name, BufSize - 1)>>

(* cppDemangle(name): <<returns _buf, text>>.  strncpy(_buf, demangled,
   sizeof(_buf) - 1) fills indices 0 .. sizeof(_buf) - 2; the last byte of
   _buf is still the zero the constructor put there. *)
cppDemangle(name) ==
    IF /\ name # NullPtr
       /\ CharAt(name, 0) = "_"
       /\ CharAt(name, 1) = "Z"
       /\ cxa_demangle(name) # NullPtr
    THEN <<TRUE, Take(cxa_demangle(name), BufSize - 1)>>
    ELSE <<FALSE, name>>

(* -------------------------- javaMethodName ---------------------------- *)

\* the && chain of the three JVMTI calls: the first non-zero error, or 0
QueryErr(r1, r2, r3) == IF r1 # 0 THEN r1 ELSE IF r2 # 0 THEN r2 ELSE r3

\* strcat(result, str)
strcat(d, str) == IF d.fault # "none" THEN d ELSE appendStr(d, str)

\* line 68: javaClassName(class_name, strlen(class_name), _style)
ClassPart(method, style) ==
    javaClassName(ClassSigOf(method) \o <<NUL>>, strlen(ClassSigOf(method)),
                  style)

\* line 70: appendMethodName(result, method_name)
NamePart(d, method) ==
    IF d.fault # "none" THEN d
    ELSE [appendMethodName(d.text, MethodNameOf(method) \o <<NUL>>)
            EXCEPT !.hi = Max(@, d.hi)]

\* lines 71-73: the signature, only under STYLE_SIGNATURES
SigPart(d, method, style) ==
    IF d.fault = "none" /\ STYLE_SIGNATURES \in style
    THEN [appendDemangledJvmSignature(d.text, MethodSigOf(method) \o <<NUL>>,
                                      style)
            EXCEPT !.hi = Max(@, d.hi)]
    ELSE d

\* line 74: if (_style & STYLE_ANNOTATE) strcat(result, "_[j]")
AnnotatePart(d, style) ==
    IF STYLE_ANNOTATE \in style THEN strcat(d, <<"_", "[", "j", "]">>) ELSE d

\* lines 68-74: the composition on query success, the decoder state at its end
ComposeName(method, style) ==
    AnnotatePart(
        SigPart(NamePart(strcat(ClassPart(method, style), <<".">>), method),
                method, style),
        style)

ComposeResult(d) == [err |-> 0, text |-> d.text, fault |-> d.fault]

\* lines 76-77: snprintf(_buf, sizeof(_buf), "[jvmtiError %d]", err)
ErrorResult(err) ==
    [err |-> err,
     text |-> snprintf(<<"[","j","v","m","t","i","E","r","r","o","r"," ">>
                       \o FormatD(err) \o <<"]">>),
     fault |-> "none"]

\* javaMethodName(method): [err, text, fault]; text is what result points at
javaMethodName(method, r1, r2, r3, style) ==
    IF QueryErr(r1, r2, r3) = 0
    THEN ComposeResult(ComposeName(method, style))
    ELSE ErrorResult(QueryErr(r1, r2, r3))

(* ------------------------- FrameName::name ---------------------------- *)

CacheHitNever(cache, id) == FALSE

\* lines 135-136: lower_bound finds an entry whose key is id
CacheHit(cache, id) == id \in DOMAIN cache

CacheInsertEvicting(cache, id, text) == [k \in {id} |-> text]

\* line 141: std::map::insert of (id, std::string(newName)); an existing key stays
CacheInsert(cache, id, text) ==
    IF id \in DOMAIN cache THEN cache ELSE MapPut(cache, id, text)

Returned(kind, id, outcome, src, text) ==
    call' = [kind |-> kind, id |-> id, outcome |-> outcome, src |-> src,
             text |-> text]

UnknownNameEmpty == <<>>

\* line 98: the string literal "[unknown]"
UnknownName == <<"[","u","n","k","n","o","w","n","]">>

\* lines 97-99: frame.method_id == NULL, whatever frame.bci is
NameUnknown ==
    /\ proc = "running"
    /\ tpc = "idle"
    /\ \E bci \in Locations :
          Returned("null", <<>>, "literal", "literal", UnknownName)
    /\ UNCHANGED <<_cache, _buf, _style, _thread_names, proc, hiWrite, queries,
                   inserts, firstq, fin, fout, lockVars>>

NativeFrame(sym, r) ==
    IF r[1]
    THEN /\ Written(r[2], BufSize - 2)
         /\ Returned(BCI_NATIVE_FRAME, sym, "formatted", "buf", r[2])
    ELSE /\ Returned(BCI_NATIVE_FRAME, sym, "verbatim", "input", r[2])
         /\ UNCHANGED <<_buf, hiWrite, proc>>

\* lines 102-103: BCI_NATIVE_FRAME
NameNative ==
    /\ proc = "running"
    /\ tpc = "idle"
    /\ \E sym \in NativeSymbols : NativeFrame(sym, cppDemangle(sym))
    /\ UNCHANGED <<_cache, _style, _thread_names, queries, inserts,
                   firstq, fin, fout, lockVars>>

\* lines 107-108 and 113-114: javaClassName with DOTTED forced, then the suffix
SymbolName(body, tail, dottedSuffix, plainSuffix) ==
    strcat(javaClassName(body \o tail, Len(body), _style \cup {STYLE_DOTTED}),
           IF STYLE_DOTTED \in _style THEN dottedSuffix ELSE plainSuffix)

SymbolFrameCaching(kind, body, d) ==
    /\ proc = "running"
    /\ tpc = "idle"
    /\ IF d.fault # "none"
       THEN Crash(kind, body)
       ELSE /\ Written(d.text, d.hi)
            /\ Returned(kind, body, "formatted", "buf", d.text)
    /\ _cache' = MapPut(_cache, "m1", d.text)
    /\ UNCHANGED <<_style, _thread_names, queries, inserts,
                   firstq, fin, fout, lockVars>>

SymbolFrame(kind, body, d) ==
    /\ proc = "running"
    /\ tpc = "idle"
    /\ IF d.fault # "none"
       THEN Crash(kind, body)
       ELSE /\ Written(d.text, d.hi)
            /\ Returned(kind, body, "formatted", "buf", d.text)
    /\ UNCHANGED <<_cache, _style, _thread_names, queries, inserts,
                   firstq, fin, fout, lockVars>>

\* lines 105-109: BCI_SYMBOL
NameSymbol ==
    \E body \in SymbolBodies, tail \in SymbolTails :
        SymbolFrame(BCI_SYMBOL, body,
                    SymbolName(body, tail, <<>>, <<"_", "[", "i", "]">>))

\* lines 111-115: BCI_SYMBOL_OUTSIDE_TLAB (method_id ^ 1 is the VMSymbol)
NameSymbolOutside ==
    \E body \in SymbolBodies, tail \in SymbolTails :
        SymbolFrame(BCI_SYMBOL_OUTSIDE_TLAB, body,
                    SymbolName(body, tail, <<" ", "(", "o", "u", "t", ")">>,
                               <<"_", "[", "k", "]">>))

ThreadTextNoName(names, tid) ==
    <<"[","t","i","d","=">> \o FormatD(tid) \o <<"]">>

\* lines 120-125: the text given to snprintf on the THREAD_ID path
ThreadText(names, tid) ==
    IF tid \in DOMAIN names
    THEN <<"[">> \o names[tid] \o <<" ","t","i","d","=">> \o FormatD(tid) \o <<"]">>
    ELSE <<"[","t","i","d","=">> \o FormatD(tid) \o <<"]">>

\* lines 117-127: BCI_THREAD_ID, under MutexLocker ml(_thread_names_lock)
NameThread ==
    /\ proc = "running"
    /\ tpc = "idle"
    /\ \E tid \in Tids :
          LET text == snprintf(ThreadText(_thread_names, tid))
          IN  /\ Written(text, Len(text))
              /\ Returned(BCI_THREAD_ID, <<tid>>, "formatted", "buf", text)
    /\ UNCHANGED <<_cache, _style, _thread_names, queries, inserts,
                   firstq, fin, fout, lockVars>>

\* lines 129-132: BCI_ERROR
NameError ==
    /\ proc = "running"
    /\ tpc = "idle"
    /\ \E msg \in ErrorTexts :
          LET text == snprintf(<<"[">> \o msg \o <<"]">>)
          IN  /\ Written(text, Len(text))
              /\ Returned(BCI_ERROR, msg, "formatted", "buf", text)
    /\ UNCHANGED <<_cache, _style, _thread_names, queries, inserts,
                   firstq, fin, fout, lockVars>>

\* the string name() hands back on a miss (line 142)
MissReturn(id) == "buf"

\* the triples of results the three JVMTI calls of one query can give
QueryOutcomes == {<<0, 0, 0>>, <<23, 0, 0>>, <<0, 23, 0>>, <<0, 0, 23>>}

\* lines 137: the cached std::string is returned
MethodHit(id) ==
    /\ Returned(BCI_REGULAR, id, "hit", "cache", _cache[id])
    /\ UNCHANGED <<_cache, _buf, hiWrite, proc, queries, inserts, firstq>>

\* lines 140-142: javaMethodName, the insertion, and the return of newName
MethodMiss(id, r) ==
    /\ queries' = [queries EXCEPT ![id] = Bump(@)]
    /\ firstq' = IF firstq[id].res = "none"
                 THEN [firstq EXCEPT
                         ![id] = [res |-> IF r.err = 0 THEN "ok" ELSE "err",
                                  text |-> r.text]]
                 ELSE firstq
    /\ IF r.fault # "none"
       THEN /\ Crash(BCI_REGULAR, id)
            /\ UNCHANGED <<_cache, inserts>>
       ELSE /\ Written(r.text, Len(r.text))
            /\ _cache' = CacheInsert(_cache, id, r.text)
            /\ inserts' = [inserts EXCEPT ![id] =
                              IF id \in DOMAIN _cache /\ _cache' = _cache
                              THEN @ ELSE Bump(@)]
            /\ Returned(BCI_REGULAR, id,
                        IF r.err = 0 THEN "miss_ok" ELSE "miss_err",
                        MissReturn(id), r.text)

\* lines 134-143: a regular method frame
NameMethod ==
    /\ proc = "running"
    /\ tpc = "idle"
    /\ \E id \in JMethods, q \in QueryOutcomes :
          IF CacheHit(_cache, id)
          THEN MethodHit(id)
          ELSE MethodMiss(id, javaMethodName(id, q[1], q[2], q[3], _style))
    /\ UNCHANGED <<_style, _thread_names, fin, fout, lockVars>>

\* the collaborator that owns the ThreadMap names or renames a thread
SetThreadName ==
    /\ proc = "running"
    /\ \E tid \in NamedTids, n \in ThreadDisplayNames :
          /\ (IF tid \in DOMAIN _thread_names THEN _thread_names[tid] # n ELSE TRUE)
          /\ _thread_names' = MapPut(_thread_names, tid, n)
    /\ UNCHANGED <<_cache, _buf, _style, proc, hiWrite, call, queries,
                   inserts, firstq, fin, fout, lockVars>>

Next ==
    \/ NameUnknown
    \/ NameNative
    \/ NameSymbol
    \/ NameSymbolOutside
    \/ NameThread
    \/ NameError
    \/ NameMethod
    \/ SetThreadName

Spec == Init /\ [][Next]_vars

(* ------------- the THREAD_ID case and the writer, step by step -------- *)

(* The thread that calls name() and the collaborator that updates the
   ThreadMap run concurrently.  Here the BCI_THREAD_ID case is taken one
   statement at a time (tpc: "idle", "find", "format", "return") and so is
   the writer (wpc: "idle", "update", "unlock"); the other cases of name()
   stay single steps, taken only between two calls. *)

MutexLockerSkipped(holder) == holder

\* MutexLocker ml(_thread_names_lock): the constructor takes the lock
MutexLocker(holder) == "namer"

\* ~MutexLocker at the end of the case's block
MutexUnlocker(holder) == IF holder = "namer" THEN "free" ELSE holder

\* lines 118-119: tid is taken from the frame and the lock is acquired
ThreadLock ==
    /\ proc = "running"
    /\ tpc = "idle"
    /\ lock = "free"
    /\ \E tid \in Tids : ttid' = tid
    /\ lock' = MutexLocker(lock)
    /\ tpc' = "find"
    /\ UNCHANGED <<_cache, _buf, _style, _thread_names, proc, hiWrite, call,
                   queries, inserts, firstq, fin, fout, it, wpc>>

\* line 120: it = _thread_names.find(tid)
ThreadFind ==
    /\ tpc = "find"
    /\ it' = IF ttid \in DOMAIN _thread_names THEN "found" ELSE "end"
    /\ tpc' = "format"
    /\ UNCHANGED <<_cache, _buf, _style, _thread_names, proc, hiWrite, call,
                   queries, inserts, firstq, fin, fout, lock, ttid, wpc>>

\* lines 121-125: snprintf of it->second (read now) or of the tid alone
ThreadFormat ==
    /\ tpc = "format"
    /\ Written(snprintf(ThreadText(IF it = "found" THEN _thread_names
                                   ELSE EmptyMap, ttid)),
               Len(snprintf(ThreadText(IF it = "found" THEN _thread_names
                                       ELSE EmptyMap, ttid))))
    /\ tpc' = "return"
    /\ UNCHANGED <<_cache, _style, _thread_names, call, queries, inserts,
                   firstq, fin, fout, lock, ttid, it, wpc>>

\* lines 126-127: return _buf; the MutexLocker goes out of scope
ThreadReturn ==
    /\ tpc = "return"
    /\ lock' = MutexUnlocker(lock)
    /\ Returned(BCI_THREAD_ID, <<ttid>>, "formatted", "buf", _buf)
    /\ tpc' = "idle"
    /\ ttid' = 0
    /\ it' = "none"
    /\ UNCHANGED <<_cache, _buf, _style, _thread_names, proc, hiWrite,
                   queries, inserts, firstq, fin, fout, wpc>>

\* the collaborator takes the same lock before it touches the map
WriterLock ==
    /\ proc = "running"
    /\ wpc = "idle"
    /\ lock = "free"
    /\ lock' = "writer"
    /\ wpc' = "update"
    /\ UNCHANGED <<_cache, _buf, _style, _thread_names, proc, hiWrite, call,
                   queries, inserts, firstq, fin, fout, tpc, ttid, it>>

\* it names or renames a thread
WriterUpdate ==
    /\ wpc = "update"
    /\ \E tid \in NamedTids, n \in ThreadDisplayNames :
          /\ (IF tid \in DOMAIN _thread_names THEN _thread_names[tid] # n ELSE TRUE)
          /\ _thread_names' = MapPut(_thread_names, tid, n)
    /\ wpc' = "unlock"
    /\ UNCHANGED <<_cache, _buf, _style, proc, hiWrite, call, queries,
                   inserts, firstq, fin, fout, lock, tpc, ttid, it>>

\* and gives the lock back
WriterUnlock ==
    /\ wpc = "unlock"
    /\ lock' = IF lock = "writer" THEN "free" ELSE lock
    /\ wpc' = "idle"
    /\ UNCHANGED <<_cache, _buf, _style, _thread_names, proc, hiWrite, call,
                   queries, inserts, firstq, fin, fout, tpc, ttid, it>>

\* one FrameName with no style bit set
InitLock == Init /\ _style = {}

NextLock ==
    \/ NameUnknown
    \/ NameNative
    \/ NameSymbol
    \/ NameSymbolOutside
    \/ NameError
    \/ NameMethod
    \/ ThreadLock
    \/ ThreadFind
    \/ ThreadFormat
    \/ ThreadReturn
    \/ WriterLock
    \/ WriterUpdate
    \/ WriterUnlock

SpecLock == InitLock /\ [][NextLock]_vars

(* ------------------- the formatters on their own ---------------------- *)

(* A formatter specification draws one input in its initial state and applies
   one formatter to it on an empty scratch buffer:
     "method"  a method descriptor  '(' params ')' ret   -> the signature decoder
     "token"   one type token (ret)                       -> the signature decoder
     "class"   a class descriptor (name, followed by tail) -> javaClassName
     "name"    a raw name                                 -> processJvmName
     "malformed" a descriptor that breaks the grammar     -> the signature decoder *)

\* element designators: two primitive codes and two object tokens
BaseTypes ==
    { <<"I">>, <<"J">>, <<"L", "a", "/", "B", ";">>, <<"L", "C", ";">> }

TypeTokens == [dims : 0 .. MaxDim, base : BaseTypes]

VoidType == [dims |-> 0, base |-> <<"V">>]

ReturnTypes ==
    {VoidType} \cup {t \in TypeTokens : t.dims <= 1 /\ t.base \in
                                          {<<"I">>, <<"L", "a", "/", "B", ";">>}}

ParamLists == UNION {[1 .. n -> TypeTokens] : n \in 0 .. MaxParams}

NameChars == {"a", ",", "\\", "(", ")", "/"}

RawNames == UNION {[1 .. n -> NameChars] : n \in 1 .. MaxNameLen}

ClassBodies ==
    { <<"a", "/", "B">>, <<"j", "/", "l", "/", "O">>, <<"C">> }

\* terminated strings that are not descriptors: an object token without
\* its ';', a parameter list that is not closed, a lone array marker
MalformedDescriptors ==
    { <<"L", "a">>, <<"(", "I">>, <<"(", "L", "a">>, <<"[">>, <<"(", "[">> }

\* a descriptor's terminator and the bytes that follow it in memory
TerminatorTails == { <<NUL>>, <<NUL, "I">> }

DecoderStyles == SUBSET {STYLE_SIMPLE, STYLE_DOTTED}

FmtInput(kind, params, ret, name, tail, style) ==
    [kind |-> kind, params |-> params, ret |-> ret, name |-> name,
     tail |-> tail, style |-> style]

\* the inputs drawn under a set of style combinations
FmtInputs(styles) ==
    {FmtInput("method", ps, r, <<>>, <<NUL>>, st) :
        ps \in ParamLists, r \in ReturnTypes, st \in styles}
    \cup {FmtInput("token", <<>>, t, <<>>, <<NUL>>, st) :
        t \in TypeTokens \cup {VoidType}, st \in styles}
    \cup {FmtInput("class", <<>>, VoidType, b, tl, st) :
        b \in ClassBodies, tl \in SymbolTails, st \in styles \ {{}}}
    \cup {FmtInput("name", <<>>, VoidType, n, <<NUL>>, st) :
        n \in RawNames, st \in styles}
    \cup {FmtInput("malformed", <<>>, VoidType, n, tl, st) :
        n \in MalformedDescriptors, tl \in TerminatorTails,
        st \in styles}

\* the descriptor text of a type token: its array markers, then its element
EncodeType(t) == Repeat(<<"[">>, t.dims) \o t.base

RECURSIVE EncodeParams(_)
EncodeParams(ps) ==
    IF ps = <<>> THEN <<>> ELSE EncodeType(Head(ps)) \o EncodeParams(Tail(ps))

\* the descriptor text handed to the signature decoder
Descriptor(in) ==
    IF in.kind = "method"
    THEN <<"(">> \o EncodeParams(in.params) \o <<")">> \o EncodeType(in.ret)
    ELSE IF in.kind = "malformed" THEN in.name
    ELSE EncodeType(in.ret)

InitFmt ==
    /\ _cache = EmptyMap
    /\ _buf = <<>>
    /\ _style = {}
    /\ _thread_names = EmptyMap
    /\ proc = "running"
    /\ hiWrite = -1
    /\ call = NoCall
    /\ queries = [m \in JMethods |-> 0]
    /\ inserts = [m \in JMethods |-> 0]
    /\ firstq = [m \in JMethods |-> NoFirst]
    /\ fin \in FmtInputs(DecoderStyles)
    /\ fout = NotRun
    /\ LockInit

\* appendDemangledJvmSignature on a descriptor, from an empty buffer
ApplySig ==
    /\ fin.kind \in {"method", "token", "malformed"}
    /\ ~fout.ran
    /\ fout' = [ran |-> TRUE,
                d |-> appendDemangledJvmSignature(<<>>, Descriptor(fin) \o fin.tail,
                                                  fin.style)]
    /\ UNCHANGED <<sessionVars, fin>>

\* javaClassName on a class descriptor and its length
ApplyClass ==
    /\ fin.kind = "class"
    /\ ~fout.ran
    /\ fout' = [ran |-> TRUE,
                d |-> javaClassName(fin.name \o fin.tail, Len(fin.name), fin.style)]
    /\ UNCHANGED <<sessionVars, fin>>

\* processJvmName on a raw name, entered at s_pos 0
ApplyEscape ==
    /\ fin.kind = "name"
    /\ ~fout.ran
    /\ fout' = [ran |-> TRUE,
                d |-> processJvmName(NewDec(fin.name \o fin.tail, fin.style, <<>>),
                                     fin.style)]
    /\ UNCHANGED <<sessionVars, fin>>

NextFmt == ApplySig \/ ApplyClass \/ ApplyEscape

SpecFmt == InitFmt /\ [][NextFmt]_vars

(* ---------------------- the line-number resolver ---------------------- *)

(* The resolver is not part of frameName.cpp; it is taken from section 4.7:
   scan the method's table from its last entry backward and return the
   line_number of the first entry whose start_offset <= the offset, -1 when
   there is none. *)

\* most entries of a generated line-number table
MaxEntries == 3

StartOffsets == {0, 5, 9}

LineNumbers == {10, 12, 15}

QueryOffsets == {-1, 0, 4, 5, 7, 9, 20}

LineEntries == [start_offset : StartOffsets, line_number : LineNumbers]

\* tables ascending by start_offset
LineNumberTables ==
    {t \in UNION {[1 .. n -> LineEntries] : n \in 0 .. MaxEntries} :
        \A i \in 1 .. Len(t) - 1 : t[i].start_offset <= t[i + 1].start_offset}

RECURSIVE ScanForward(_, _, _)
ScanForward(table, i, offset) ==
    IF i > Len(table) THEN -1
    ELSE IF table[i].start_offset <= offset THEN table[i].line_number
    ELSE ScanForward(table, i + 1, offset)

getLineNumberForward(table, offset) == ScanForward(table, 1, offset)

RECURSIVE ScanBackward(_, _, _)
ScanBackward(table, i, offset) ==
    IF i = 0 THEN -1
    ELSE IF table[i].start_offset <= offset THEN table[i].line_number
    ELSE ScanBackward(table, i - 1, offset)

\* the resolver: the backward scan from the last entry
getLineNumber(table, offset) == ScanBackward(table, Len(table), offset)

InitLine ==
    /\ _cache = EmptyMap
    /\ _buf = <<>>
    /\ _style = {}
    /\ _thread_names = EmptyMap
    /\ proc = "running"
    /\ hiWrite = -1
    /\ call = NoCall
    /\ queries = [m \in JMethods |-> 0]
    /\ inserts = [m \in JMethods |-> 0]
    /\ firstq = [m \in JMethods |-> NoFirst]
    /\ fin \in [kind : {"line"}, table : LineNumberTables, offset : QueryOffsets]
    /\ fout = [ran |-> FALSE, line |-> 0]
    /\ LockInit

\* the resolver on a table and an execution offset
ApplyLine ==
    /\ fin.kind = "line"
    /\ ~fout.ran
    /\ fout' = [ran |-> TRUE, line |-> getLineNumber(fin.table, fin.offset)]
    /\ UNCHANGED <<sessionVars, fin>>

NextLine == ApplyLine

SpecLine == InitLine /\ [][NextLine]_vars

(* ============================ the claims ============================== *)

(* C1: when the metadata query of a regular method frame fails, the cache
   holds no entry for that identifier after the call, and the next name()
   call with the same identifier queries the metadata again rather than
   returning a cached text. *)
C1_FailureNotMemoized ==
    [][ /\ (call'.kind = BCI_REGULAR /\ call'.outcome = "miss_err")
            => call'.id \notin DOMAIN _cache'
        /\ (call.kind = BCI_REGULAR /\ call.outcome = "miss_err"
              /\ call'.kind = BCI_REGULAR /\ call'.id = call.id)
            => call'.outcome \in {"miss_ok", "miss_err", "fault"} ]_vars

(* C2: if the first metadata query for a method identifier succeeded, that
   identifier has been queried exactly once in the whole session, and every
   later name() call with it is a cache hit returning the text composed on
   the first call. *)
C2_Idempotent ==
    \A id \in JMethods :
        firstq[id].res = "ok" =>
            /\ queries[id] = 1
            /\ (call.kind = BCI_REGULAR /\ call.id = id
                  /\ call.outcome \notin {"miss_ok", "fault"})
               => /\ call.outcome = "hit"
                  /\ call.src = "cache"
                  /\ call.text = firstq[id].text

\* a later call on a method whose first query succeeded
C2_Witness ==
    /\ call.kind = BCI_REGULAR
    /\ call.outcome = "hit"
    /\ firstq[call.id].res = "ok"
    /\ queries[call.id] = 1

(* C3: the string name() returns for a regular method frame whose metadata
   query succeeded (on the miss that inserted the entry as well as on a hit)
   still reads the same text after any later name() call. *)
C3_ReturnedTextStable ==
    [][ (call.kind = BCI_REGULAR /\ call.outcome \in {"miss_ok", "hit"}
           /\ firstq[call.id].res = "ok")
        => (IF call.src = "buf" THEN _buf' ELSE _cache'[call.id]) = call.text
      ]_vars

(* C4: no write made while formatting goes past the scratch buffer's
   capacity, whatever the length of the input texts: a result that is too
   long is truncated. *)
C4_WithinCapacity == hiWrite < BufSize

(* C5: an entry is inserted at most once per identifier; once an entry
   exists its stored text never changes and it is never removed. *)
C5_CacheOnlyGrows ==
    [][ /\ \A id \in DOMAIN _cache :
              id \in DOMAIN _cache' /\ _cache'[id] = _cache[id]
        /\ \A id \in JMethods : inserts'[id] <= 1 ]_vars

\* both identifiers are cached and one of them has just been served again
C5_Witness ==
    /\ DOMAIN _cache = JMethods
    /\ call.kind = BCI_REGULAR
    /\ call.outcome = "hit"
    /\ inserts = [m \in JMethods |-> 1]

(* ----- what the formatters are specified to produce (claims C6-C9) ----- *)

RECURSIVE DropChars(_, _)
DropChars(t, cs) ==
    IF t = <<>> THEN <<>>
    ELSE (IF Head(t) \in cs THEN <<>> ELSE <<Head(t)>>) \o DropChars(Tail(t), cs)

RECURSIVE Escaped(_)
Escaped(t) ==
    IF t = <<>> THEN <<>>
    ELSE (IF Head(t) \in {",", "\\", "(", ")"}
          THEN <<"\\", Head(t)>> ELSE <<Head(t)>>) \o Escaped(Tail(t))

RECURSIVE Dotted(_)
Dotted(t) ==
    IF t = <<>> THEN <<>>
    ELSE <<IF Head(t) = "/" THEN "." ELSE Head(t)>> \o Dotted(Tail(t))

RECURSIVE AfterLastSlash(_)
AfterLastSlash(t) ==
    IF \E i \in 1 .. Len(t) : t[i] = "/"
    THEN AfterLastSlash(Tail(t))
    ELSE t

\* a class or object name as the package rules of the style render it
StyledName(n, style) ==
    IF STYLE_SIMPLE \in style THEN AfterLastSlash(n)
    ELSE IF STYLE_DOTTED \in style THEN Dotted(n) ELSE n

Keyword(c) ==
    CASE c = "I" -> <<"i", "n", "t">>
      [] c = "J" -> <<"l", "o", "n", "g">>
      [] c = "V" -> <<"v", "o", "i", "d">>

\* the readable name of a type token: its element, then "[]" per dimension
ReadableType(t, style) ==
    (IF Head(t.base) = "L"
     THEN StyledName(SubSeq(t.base, 2, Len(t.base) - 1), style)
     ELSE Keyword(Head(t.base)))
    \o Repeat(<<"[", "]">>, t.dims)

RECURSIVE ReadableParams(_, _)
ReadableParams(ps, style) ==
    IF ps = <<>> THEN <<>>
    ELSE ReadableType(Head(ps), style)
         \o (IF Tail(ps) = <<>> THEN <<>> ELSE <<",", " ">>)
         \o ReadableParams(Tail(ps), style)

ReadableSignature(in) ==
    <<"(">> \o ReadableParams(in.params, in.style) \o <<")", " ">>
    \o ReadableType(in.ret, in.style)

(* C6: every raw name sent through the escaping formatter comes out with
   each ',', '\', '(' and ')' preceded by one backslash and every other
   character except '/' verbatim and in order. *)
C6_Escaped ==
    (fin.kind = "name" /\ fout.ran) =>
        /\ fout.d.fault = "none"
        /\ DropChars(fout.d.text, {"/", "."})
             = Escaped(DropChars(fin.name, {"/"}))

(* C7: for every well-formed method descriptor the signature decoder emits
   '(', the decoded parameters separated by ', ', then ') ' and the decoded
   return type (results that fit the scratch buffer). *)
C7_SignatureDecoded ==
    (fin.kind = "method" /\ fout.ran
       /\ Len(ReadableSignature(fin)) < BufSize) =>
        /\ fout.d.fault = "none"
        /\ fout.d.text = ReadableSignature(fin)

(* C8: a token of k array markers followed by a primitive code or an object
   token decodes to the element's readable name followed by exactly k "[]",
   and the pending array-dimension counter is zero again once a token has
   been decoded (results that fit the scratch buffer). *)
C8_ArrayDecoded ==
    /\ (fin.kind = "token" /\ fout.ran
          /\ Len(ReadableType(fin.ret, fin.style)) < BufSize) =>
            /\ fout.d.fault = "none"
            /\ fout.d.text = ReadableType(fin.ret, fin.style)
    /\ (fin.kind = "method" /\ fout.ran /\ fout.d.fault = "none")
         => fout.d.arrayDim = 0

(* C9: the class name formatter, given a class descriptor without array
   marker and without the L...; wrapper, returns it with '/' replaced by '.'
   under the dotted style and only the characters after the last '/' under
   the simple style. *)
C9_ClassSimplified ==
    (fin.kind = "class" /\ fout.ran) =>
        /\ fout.d.fault = "none"
        /\ fout.d.text = StyledName(fin.name, fin.style)

(* ---------------------------- claim C10 ------------------------------- *)

C10_Digits(tid) == IF tid = 42 THEN <<"4", "2">> ELSE <<"7">>

C10_Marker(names, tid) ==
    <<"[">> \o (IF tid \in DOMAIN names THEN names[tid] \o <<" ">> ELSE <<>>)
    \o <<"t", "i", "d", "=">> \o C10_Digits(tid) \o <<"]">>

(* C10 as stated: on a THREAD_MARKER frame name() returns "[<name> tid=<t>]"
   when the table maps t to <name> at the lookup and "[tid=<t>]" when t is
   absent, and leaves the table as it was. *)
C10_ThreadMarkerExact ==
    [][ NameThread =>
          /\ \E tid \in Tids :
                /\ call'.id = <<tid>>
                /\ call'.text = C10_Marker(_thread_names, tid)
          /\ _thread_names' = _thread_names ]_vars

(* C10 as amended: the returned text is that marker cut to the capacity of
   the scratch buffer less its terminator. *)
C10_ThreadMarkerTruncated ==
    [][ NameThread =>
          /\ \E tid \in Tids :
                /\ call'.id = <<tid>>
                /\ call'.src = "buf"
                /\ call'.text = Take(C10_Marker(_thread_names, tid), BufSize - 1)
          /\ _thread_names' = _thread_names ]_vars

\* thread 42, named main by the collaborator, has just been formatted
C10_Witness ==
    /\ call.kind = BCI_THREAD_ID
    /\ call.id = <<42>>
    /\ 42 \in DOMAIN _thread_names
    /\ call.text = <<"[", "m", "a", "i", "n", " ", "t", "i", "d", "=", "4", "2", "]">>

(* ---------------------------- claim C11 ------------------------------- *)

(* C11: on the THREAD_MARKER path the lock is taken before the lookup; the
   lookup and the read of the found display name happen while name() holds
   the lock, and the table does not change between them; the lock is no
   longer held by name() once it has returned, on the found and on the
   not-found branch; a name() call on any other kind of frame neither takes
   the lock nor starts a lookup. *)
C11_LockDiscipline ==
    [][ /\ tpc \in {"find", "format"}
            => (lock = "namer" /\ _thread_names' = _thread_names)
        /\ tpc' = "idle" => lock' # "namer"
        /\ (call' # call /\ call'.kind # BCI_THREAD_ID)
            => (lock' = lock /\ tpc' = "idle" /\ tpc = "idle" /\ it' = it) ]_vars

\* name() has found the entry and is about to read it, after an earlier
\* call of another kind, while the writer waits for the lock
C11_Witness ==
    /\ tpc = "format"
    /\ it = "found"
    /\ lock = "namer"
    /\ wpc = "idle"
    /\ call.kind = BCI_NATIVE_FRAME

(* ---------------------------- claim C12 ------------------------------- *)

(* C12: for a frame whose identifier is absent, name() returns the literal
   [unknown] whatever the location value is, issues no metadata query and
   leaves the cache, the scratch buffer and the thread-name lock alone. *)
C12_AbsentIdentifier ==
    [][ NameUnknown =>
          /\ call'.text = <<"[", "u", "n", "k", "n", "o", "w", "n", "]">>
          /\ call'.src = "literal"
          /\ UNCHANGED <<_cache, _buf, hiWrite, queries, inserts, lock,
                         _thread_names>> ]_vars

\* [unknown] has just been returned while the cache and the scratch buffer
\* still hold what earlier calls left there
C12_Witness ==
    /\ call.kind = "null"
    /\ call.text = <<"[", "u", "n", "k", "n", "o", "w", "n", "]">>
    /\ DOMAIN _cache # {}
    /\ _buf # <<>>

(* ---------------------------- claim C13 ------------------------------- *)

(* C13: for a NATIVE frame whose symbol does not start with the mangling
   prefix, or that the platform demangler rejects, name() returns the
   symbol text itself and leaves the scratch buffer and the cache as they
   were; when demangling succeeds the demangled text, cut to the capacity of
   the scratch buffer, is written there and returned. *)
C13_DemangleFallback ==
    [][ NameNative =>
          \E sym \in NativeSymbols :
              /\ call'.id = sym
              /\ _cache' = _cache
              /\ IF /\ Len(sym) >= 2
                    /\ sym[1] = "_"
                    /\ sym[2] = "Z"
                    /\ cxa_demangle(sym) # NullPtr
                 THEN /\ call'.src = "buf"
                      /\ call'.text = Take(cxa_demangle(sym), BufSize - 1)
                      /\ _buf' = call'.text
                 ELSE /\ call'.src = "input"
                      /\ call'.text = sym
                      /\ _buf' = _buf
                      /\ hiWrite' = hiWrite ]_vars

\* a prefixed symbol the demangler rejects came back verbatim while the
\* scratch buffer keeps the text of an earlier call
C13_Witness ==
    /\ call.kind = BCI_NATIVE_FRAME
    /\ call.id = <<"_", "Z", "x">>
    /\ call.text = <<"_", "Z", "x">>
    /\ call.src = "input"
    /\ _buf # <<>>

(* ---------------------------- claim C14 ------------------------------- *)

\* the entries of a table that start at or before an offset
C14_Covering(table, offset) ==
    {i \in 1 .. Len(table) : table[i].start_offset <= offset}

C14_Example ==
    << [start_offset |-> 0, line_number |-> 10],
       [start_offset |-> 5, line_number |-> 12],
       [start_offset |-> 9, line_number |-> 15] >>

(* C14: for a table ascending by start_offset the resolver returns the
   line_number of the last entry whose start_offset is <= the offset, and -1
   when no entry qualifies; on [(0,10),(5,12),(9,15)] offset 7 gives 12,
   offset 20 gives 15 and an offset before the first entry gives -1. *)
C14_LineResolved ==
    (fin.kind = "line" /\ fout.ran) =>
        /\ IF C14_Covering(fin.table, fin.offset) = {}
           THEN fout.line = -1
           ELSE \E i \in C14_Covering(fin.table, fin.offset) :
                   /\ \A j \in C14_Covering(fin.table, fin.offset) : j <= i
                   /\ fout.line = fin.table[i].line_number
        /\ fin.table = C14_Example =>
              /\ fin.offset = 7 => fout.line = 12
              /\ fin.offset = 20 => fout.line = 15
              /\ fin.offset = -1 => fout.line = -1

\* the example table resolved at offset 7
C14_Witness ==
    /\ fin.kind = "line"
    /\ fout.ran
    /\ fin.table = C14_Example
    /\ fin.offset = 7
    /\ fout.line = 12

(* ---------------------------- claim C15 ------------------------------- *)

\* the descriptors of the two methods, taken apart into type tokens
C15_Signature(m, style) ==
    IF m = "m1"
    THEN [params |-> << [dims |-> 0, base |-> <<"I">>],
                        [dims |-> 1, base |-> <<"L", "a", "/", "B", ";">>] >>,
          ret |-> VoidType, style |-> style]
    ELSE [params |-> <<>>, ret |-> VoidType, style |-> style]

C15_ClassBody(m) == IF m = "m1" THEN <<"a", "/", "B">> ELSE <<"C">>

C15_Composition(m, style) ==
    StyledName(C15_ClassBody(m), style)
    \o <<".">>
    \o Escaped(MethodNameOf(m))
    \o (IF STYLE_SIGNATURES \in style
        THEN ReadableSignature(C15_Signature(m, style)) ELSE <<>>)
    \o (IF STYLE_ANNOTATE \in style THEN <<"_", "[", "j", "]">> ELSE <<>>)

(* C15: when the metadata queries of a regular method frame succeed, the
   text name() returns is the decoded declaring class, '.', the escaped
   method name, then the decoded signature only under SIGNATURES and the
   marker _[j] only under ANNOTATE, in that order. *)
C15_Composed ==
    [][ \A id \in JMethods :
          (firstq[id].res = "none" /\ firstq'[id].res = "ok")
          => /\ call'.kind = BCI_REGULAR
             /\ call'.id = id
             /\ call'.outcome = "miss_ok"
             /\ call'.text = C15_Composition(id, _style) ]_vars

(* ---------------------------- claim C16 ------------------------------- *)

(* C16: under the SIMPLE style each '/' of an embedded object name
   L<pkg>/<Name>; discards the characters written so far for that name and
   writing restarts where the name began, so the name comes out as the
   characters after its last '/', and what was written before the name
   (earlier parameters, the opening parenthesis) is preserved. *)
C16_SimpleRule ==
    (fin.kind \in {"method", "token"} /\ fout.ran
       /\ STYLE_SIMPLE \in fin.style) =>
        /\ fout.d.fault = "none"
        /\ fout.d.text = IF fin.kind = "method"
                         THEN ReadableSignature(fin)
                         ELSE ReadableType(fin.ret, fin.style)

(* ---------------------------- claim C17 ------------------------------- *)

(* C17: on every terminated descriptor string, well-formed or not, the
   signature decoder never reads at a position past the string's terminator
   and advances its read position at most once per input character. *)
C17_StaysInsideInput ==
    (fin.kind \in {"method", "token", "malformed"} /\ fout.ran
       /\ fout.d.fault = "none") =>
        /\ fout.d.maxRead <= strlen(fout.d.mem)
        /\ fout.d.steps <= strlen(fout.d.mem)

(* ---------------------------- claim C18 ------------------------------- *)

(* C18: a name() call on a NATIVE, SYMBOL, SYMBOL_OUTSIDE_ORIGIN,
   THREAD_MARKER or ERROR_MARKER frame issues no metadata query and leaves
   the cache as it was; a metadata query is issued only by a regular method
   frame whose identifier is not in the cache; a cache hit issues no query
   and adds no entry. *)
C18_DispatcherFrame ==
    [][ /\ call'.kind # BCI_REGULAR
            => UNCHANGED <<_cache, queries, inserts, firstq>>
        /\ queries' # queries
            => /\ call'.kind = BCI_REGULAR
               /\ call'.outcome # "hit"
               /\ call'.id \notin DOMAIN _cache
        /\ call'.outcome = "hit"
            => UNCHANGED <<_cache, queries, inserts, firstq>> ]_vars

\* a SYMBOL frame has been named after a method was resolved and cached
C18_Witness ==
    /\ call.kind = BCI_SYMBOL
    /\ call.outcome = "formatted"
    /\ DOMAIN _cache = {"m2"}
    /\ queries["m2"] = 1
    /\ queries["m1"] = 0

(* ---------------------------- claim C19 ------------------------------- *)

(* C19: the class name formatter reads only the first `length` characters
   of the descriptor it is given: what follows them in memory is not read
   and does not change the output. *)
C19_LengthBound ==
    (fin.kind = "class" /\ fout.ran /\ fout.d.fault = "none") =>
        /\ fout.d.maxRead < Len(fin.name)
        /\ fout.d.text
             = javaClassName(fin.name \o <<NUL>>, Len(fin.name), fin.style).text

=============================================================================
